---------------------------- MODULE Spec2Model ----------------------------
(***************************************************************************)
(* Chess robot pipeline: main.py drives capture_image, image_to_fen,      *)
(* get_best_move and RobotController.execute_robot_move, once.            *)
(*                                                                         *)
(* Conventions.                                                            *)
(*  - Python's None is the empty sequence <<>>, a value v is <<v>>.        *)
(*  - A Python string is a sequence of one-character strings.              *)
(*  - Box corners are integers (pixels).  A centre (x_min + x_max) / 2 is  *)
(*    kept as its double, x_c2 = x_min + x_max, and every quotient of the  *)
(*    code is computed exactly before int() truncates it.                  *)
(***************************************************************************)
EXTENDS Integers, Sequences, FiniteSets, TLC

VARIABLES
    pc,            \* position in main / image_to_fen
    passes,        \* iterations of main's while loop started
    calls,         \* the stage functions main has called, in order
    printed,       \* the messages printed, in order (tags)
    image_path,    \* result of capture_image
    active_color,  \* game_state['active_color'], image_to_fen's argument
    detections,    \* image_to_fen: results[0].boxes with their labels
    chessboard,    \* image_to_fen: chessboard
    pieces,        \* image_to_fen: pieces
    board,         \* image_to_fen: board (the 9x9 array)
    k,             \* image_to_fen: number of pieces the mapping loop has taken
    exc,           \* the exception in flight or last handled ("" if none)
    fen_string,    \* image_to_fen's result / main's fen_string
    best_move,     \* main's best_move
    df,            \* RobotController.df
    waypoints      \* the waypoints array execute_robot_move prints

vars == <<pc, passes, calls, printed, image_path, active_color, detections,
          chessboard, pieces, board, k, exc, fen_string, best_move, df,
          waypoints>>

None == <<>>
Some(v) == <<v>>

(***************************************************************************)
(* Bounds of the model.                                                    *)
(***************************************************************************)
MaxDet == 4        \* detections per image
MaxMoveLen == 5    \* characters of the engine's move
MaxSide == 6       \* width and height of a board frame in GridSpec

(***************************************************************************)
(* image_to_fen: the detector's output.                                    *)
(***************************************************************************)
Det(l, x0, y0, x1, y1) ==
    [label |-> l, x_min |-> x0, y_min |-> y0, x_max |-> x1, y_max |-> y1]

\* Board frames: a 16x16 frame at (4,4), a 32x32 frame at (0,0), and a
\* frame of width zero.
BoardDets ==
    { Det("Chess_Board", 4, 4, 20, 20),
      Det("Chess_Board", 0, 0, 32, 32),
      Det("Chess_Board", 4, 4, 4, 20) }

\* Piece boxes, named by where the 16x16 frame at (4,4) puts their centre:
\* a8, e1, one square below a1's row (rank 0), two squares below (rank -1),
\* and one square right of the h file (file 9).
BoxA8 == <<4, 4, 6, 6>>
BoxE1 == <<12, 18, 14, 20>>
BoxBelow1 == <<4, 20, 6, 22>>
BoxBelow2 == <<4, 22, 6, 24>>
BoxRight1 == <<20, 4, 22, 6>>

PieceAt(l, b) == Det(l, b[1], b[2], b[3], b[4])

PieceDets ==
    { PieceAt("White_King", BoxA8), PieceAt("Black_King", BoxA8),
      PieceAt("Black_King", BoxE1), PieceAt("Hand", BoxA8),
      PieceAt("White_Pawn", BoxBelow1), PieceAt("Black_King", BoxBelow2),
      PieceAt("White_Pawn", BoxRight1) }

Detections == BoardDets \cup PieceDets

RECURSIVE SeqsUpTo(_, _)
SeqsUpTo(S, n) ==
    IF n = 0 THEN { <<>> }
    ELSE LET shorter == SeqsUpTo(S, n - 1)
         IN  shorter \cup { Append(s, x) : s \in shorter, x \in S }

DetectionLists == SeqsUpTo(Detections, MaxDet)

(***************************************************************************)
(* image_to_fen, lines 24-29: fen_mapping.                                 *)
(***************************************************************************)
fen_mapping ==
    "Black_Pawn" :> "p" @@ "Black_Rook" :> "r" @@ "Black_Knight" :> "n" @@
    "Black_Bishop" :> "b" @@ "Black_Queen" :> "q" @@ "Black_King" :> "k" @@
    "White_Pawn" :> "P" @@ "White_Rook" :> "R" @@ "White_Knight" :> "N" @@
    "White_Bishop" :> "B" @@ "White_Queen" :> "Q" @@ "White_King" :> "K"

(***************************************************************************)
(* image_to_fen, lines 32-46: the scan of the detections.                  *)
(***************************************************************************)
BoardTuple(d) ==
    [x_b |-> d.x_min, y_b |-> d.y_min,
     w_b |-> d.x_max - d.x_min, h_b |-> d.y_max - d.y_min]

PieceTuple(d) ==
    [x_c2 |-> d.x_min + d.x_max, y_c2 |-> d.y_min + d.y_max, label |-> d.label]

RECURSIVE ScanFrom(_, _, _, _)
ScanFrom(dets, i, cb, ps) ==
    IF i > Len(dets) THEN [chessboard |-> cb, pieces |-> ps]
    ELSE IF dets[i].label = "Chess_Board"
         THEN ScanFrom(dets, i + 1, Some(BoardTuple(dets[i])), ps)
         ELSE ScanFrom(dets, i + 1, cb, Append(ps, PieceTuple(dets[i])))

ScanBoardDefault(dets) ==
    LET cb == ScanFrom(dets, 1, None, <<>>).chessboard
    IN  IF cb = None THEN Some([x_b |-> 0, y_b |-> 0, w_b |-> 32, h_b |-> 32])
        ELSE cb

\* A scan that keeps the first board detection instead of the last.
ScanBoardFirst(dets) ==
    LET S == { i \in 1..Len(dets) : dets[i].label = "Chess_Board" }
    IN  IF S = {} THEN None
        ELSE Some(BoardTuple(dets[CHOOSE i \in S : \A j \in S : i <= j]))

ScanBoard(dets) == ScanFrom(dets, 1, None, <<>>).chessboard

ScanPieces(dets) == ScanFrom(dets, 1, None, <<>>).pieces

(***************************************************************************)
(* image_to_fen, lines 53-66: the mapping of one piece.                    *)
(***************************************************************************)
Abs(n) == IF n < 0 THEN -n ELSE n

\* int(num / den) for den # 0: truncation toward zero.
ToIntRound(num, den) ==
    LET q == (2 * Abs(num) + Abs(den)) \div (2 * Abs(den))
    IN  IF (num < 0) # (den < 0) THEN -q ELSE q

ToInt(num, den) ==
    LET q == Abs(num) \div Abs(den)
    IN  IF (num < 0) # (den < 0) THEN -q ELSE q

\* int() of a float quotient: a division by zero gives inf or nan, and int()
\* of those raises.
IntOfQuotient(num, den) ==
    IF den = 0
    THEN [err |-> IF num = 0 THEN "ValueError" ELSE "OverflowError", val |-> 0]
    ELSE [err |-> "", val |-> ToInt(num, den)]

\* (y_c - y_b) / h_s with y_c = y_c2 / 2 and h_s = h_b / 8.
RowQuotient(p, cb) == IntOfQuotient((p.y_c2 - 2 * cb.y_b) * 8, 2 * cb.h_b)
ColQuotient(p, cb) == IntOfQuotient((p.x_c2 - 2 * cb.x_b) * 8, 2 * cb.w_b)

RowIndex(p, cb) == 8 - RowQuotient(p, cb).val
ColIndex(p, cb) == ColQuotient(p, cb).val + 1

\* numpy's index into an axis of length 9: negative indices count from the
\* end, anything outside -9..8 is an IndexError.
IndexOk(i) == i \in -9..8
NpIndex(i) == IF i < 0 THEN i + 9 ELSE i

EmptyBoard == [r \in 0..8 |-> [c \in 0..8 |-> ""]]

SetItem(b, r, c, v) ==
    IF IndexOk(r) /\ IndexOk(c)
    THEN [err |-> "", board |-> [b EXCEPT ![NpIndex(r)][NpIndex(c)] = v]]
    ELSE [err |-> "IndexError", board |-> b]

\* One iteration of the loop of lines 61-66.
MapPiece(b, p, cb) ==
    IF RowQuotient(p, cb).err # "" THEN [err |-> RowQuotient(p, cb).err, board |-> b]
    ELSE IF ColQuotient(p, cb).err # "" THEN [err |-> ColQuotient(p, cb).err, board |-> b]
    ELSE IF p.label \in DOMAIN fen_mapping
         THEN SetItem(b, RowIndex(p, cb), ColIndex(p, cb), fen_mapping[p.label])
         ELSE [err |-> "", board |-> b]

(***************************************************************************)
(* image_to_fen, lines 69-94: the serializer.                              *)
(***************************************************************************)
DigitStr == <<"1", "2", "3", "4", "5", "6", "7", "8", "9">>
Str(n) == <<DigitStr[n]>>

\* The inner loop of lines 74-82, from column col on, and lines 83-84.
RECURSIVE FenRowNoResetFrom(_, _, _, _)
FenRowNoResetFrom(row, col, empty_count, fen_row) ==
    IF col > 8
    THEN IF empty_count > 0 THEN fen_row \o Str(empty_count) ELSE fen_row
    ELSE IF row[col] = ""
         THEN FenRowNoResetFrom(row, col + 1, empty_count + 1, fen_row)
         ELSE FenRowNoResetFrom(row, col + 1, empty_count,
                  (IF empty_count > 0 THEN fen_row \o Str(empty_count) ELSE fen_row)
                      \o <<row[col]>>)

RECURSIVE FenRowFrom(_, _, _, _)
FenRowFrom(row, col, empty_count, fen_row) ==
    IF col > 8
    THEN IF empty_count > 0 THEN fen_row \o Str(empty_count) ELSE fen_row
    ELSE IF row[col] = ""
         THEN FenRowFrom(row, col + 1, empty_count + 1, fen_row)
         ELSE FenRowFrom(row, col + 1, 0,
                  (IF empty_count > 0 THEN fen_row \o Str(empty_count) ELSE fen_row)
                      \o <<row[col]>>)

FenRowNoReset(row) == FenRowNoResetFrom(row, 1, 0, <<>>)

FenRow(row) == FenRowFrom(row, 1, 0, <<>>)

\* fen_rows, rank 8 first.
FenRows(b) == [i \in 1..8 |-> FenRow(b[9 - i])]

RECURSIVE Join(_, _)
Join(rows, sep) ==
    IF Len(rows) = 0 THEN <<>>
    ELSE IF Len(rows) = 1 THEN rows[1]
    ELSE rows[1] \o sep \o Join(Tail(rows), sep)

FenTrailer(color) == <<" ", color, " ", "-", " ", "-", " ", "0", " ", "1">>

FenString(b, color) == Join(FenRows(b), <<"/">>) \o FenTrailer(color)

(***************************************************************************)
(* main, line 106: the king check on the position string.                  *)
(***************************************************************************)
HasChar(s, c) == \E i \in 1..Len(s) : s[i] = c

MissingKingsBoth(fen) == ~HasChar(fen, "k") /\ ~HasChar(fen, "K")

MissingKings(fen) == ~HasChar(fen, "k") \/ ~HasChar(fen, "K")

(***************************************************************************)
(* get_best_move: what the engine adapter can hand back.  A move is a      *)
(* prefix of <file><rank><file><rank><promotion>.                          *)
(***************************************************************************)
FileChars == {"a", "h"}
RankChars == {"1", "8", "x"}
PromoChars == {"q"}

MoveCharsAt(i) ==
    IF i > 4 THEN PromoChars ELSE IF i % 2 = 1 THEN FileChars ELSE RankChars

RECURSIVE MovesOfLen(_)
MovesOfLen(n) ==
    IF n = 0 THEN { <<>> }
    ELSE { Append(m, c) : m \in MovesOfLen(n - 1), c \in MoveCharsAt(n) }

Moves == UNION { MovesOfLen(n) : n \in 0..MaxMoveLen }

(***************************************************************************)
(* RobotController: the coordinate table and the waypoints.                *)
(***************************************************************************)
HOME_COORDINATE == "[0.45; 0; 0.49]"

\* Rows of "Placement of pieces_csv.csv", keyed by (Col, Row).
FullTable ==
    <<"a", 1>> :> [Pick |-> "pick_a1", Place |-> "place_a1"] @@
    <<"h", 8>> :> [Pick |-> "pick_h8", Place |-> "place_h8"]

Tables == { [sq \in S |-> FullTable[sq]] : S \in SUBSET (DOMAIN FullTable) }

\* int() of one character.
IsDigit(c) == c \in {"0", "1", "2", "3", "4", "5", "6", "7", "8", "9"}
DigitValue(c) ==
    CASE c = "0" -> 0 [] c = "1" -> 1 [] c = "2" -> 2 [] c = "3" -> 3
      [] c = "4" -> 4 [] c = "5" -> 5 [] c = "6" -> 6 [] c = "7" -> 7
      [] c = "8" -> 8 [] c = "9" -> 9

MoveFrom(move) == SubSeq(move, 1, 2)
MoveTo(move) == SubSeq(move, 3, 4)

Failed(why) == [err |-> why, pick |-> "", place |-> ""]

\* get_move_coordinates: err is "" and pick, place are the coordinates, or err
\* names the ValueError raised.
get_move_coordinates(table, move) ==
    IF Len(move) < 4 THEN Failed("invalid_move_format")
    ELSE LET move_from == MoveFrom(move)
             move_to == MoveTo(move)
         IN  IF ~IsDigit(move_from[2]) THEN Failed("invalid_literal")
             ELSE IF <<move_from[1], DigitValue(move_from[2])>> \notin DOMAIN table
             THEN Failed("start_square_not_found")
             ELSE IF ~IsDigit(move_to[2]) THEN Failed("invalid_literal")
             ELSE IF <<move_to[1], DigitValue(move_to[2])>> \notin DOMAIN table
             THEN Failed("end_square_not_found")
             ELSE [err |-> "",
                   pick |-> table[<<move_from[1], DigitValue(move_from[2])>>].Pick,
                   place |-> table[<<move_to[1], DigitValue(move_to[2])>>].Place]

WaypointsShort(pick_coords, place_coords) ==
    <<pick_coords, HOME_COORDINATE, place_coords, HOME_COORDINATE>>

Waypoints(pick_coords, place_coords) ==
    <<pick_coords, pick_coords, HOME_COORDINATE,
      place_coords, place_coords, HOME_COORDINATE>>

(***************************************************************************)
(* main.                                                                   *)
(***************************************************************************)
Stages == <<"capture_image", "image_to_fen", "get_best_move", "execute_robot_move">>

\* Where main goes after a turn: line 140 breaks out of the loop.
AfterTurnLoop == "loop"

AfterTurn == "done"

Init ==
    /\ pc = "start"
    /\ passes = 0
    /\ calls = <<>>
    /\ printed = <<>>
    /\ image_path = None
    /\ active_color = "w"
    /\ detections = None
    /\ chessboard = None
    /\ pieces = <<>>
    /\ board = None
    /\ k = 0
    /\ exc = ""
    /\ fen_string = None
    /\ best_move = None
    /\ df = None
    /\ waypoints = None

ItfLocals == <<detections, chessboard, pieces, board, k>>
RobotVars == <<best_move, df, waypoints>>

\* main, lines 64-77: the model file check and game_state.
MainStart ==
    /\ pc = "start"
    /\ \/ /\ printed' = Append(printed, "model_not_found")
          /\ pc' = "done"
       \/ /\ pc' = "loop"
          /\ printed' = printed
    /\ UNCHANGED <<passes, calls, image_path, active_color, ItfLocals, exc,
                   fen_string, RobotVars>>

\* main, lines 81-82: the head of the while loop.
MainLoopHead ==
    /\ pc = "loop"
    /\ passes' = passes + 1
    /\ printed' = Append(printed, "turn")
    /\ pc' = "capture"
    /\ UNCHANGED <<calls, image_path, active_color, ItfLocals, exc,
                   fen_string, RobotVars>>

\* main, lines 85-87, and capture_image: a path, or None.
MainCapture ==
    /\ pc = "capture"
    /\ calls' = Append(calls, "capture_image")
    /\ \/ /\ image_path' = None
          /\ printed' = Append(printed, "capture_error")
          /\ pc' = "done"
       \/ /\ image_path' = Some("move_1.jpg")
          /\ printed' = Append(printed, "image_captured")
          /\ pc' = "image_to_fen"
    /\ UNCHANGED <<passes, active_color, ItfLocals, exc, fen_string,
                   RobotVars>>

\* main, lines 90-96, and image_to_fen, lines 18-46: the detector runs (or
\* raises) and the detections are split into the board and the pieces.
ItfDetect ==
    /\ pc = "image_to_fen"
    /\ calls' = Append(calls, "image_to_fen")
    /\ \/ /\ exc' = "Exception"
          /\ pc' = "fen_except"
          /\ UNCHANGED <<detections, chessboard, pieces>>
       \/ \E dets \in DetectionLists :
            /\ detections' = Some(dets)
            /\ chessboard' = ScanBoard(dets)
            /\ pieces' = ScanPieces(dets)
            /\ pc' = "itf_check"
            /\ exc' = exc
    /\ UNCHANGED <<passes, printed, image_path, active_color, board, k,
                   fen_string, RobotVars>>

\* image_to_fen, lines 50-58: no board is a ValueError, else the grid is made.
ItfCheck ==
    /\ pc = "itf_check"
    /\ IF chessboard = None
       THEN /\ exc' = "ValueError"
            /\ pc' = "fen_except"
            /\ UNCHANGED <<board, k>>
       ELSE /\ board' = Some(EmptyBoard)
            /\ k' = 0
            /\ pc' = "itf_map"
            /\ exc' = exc
    /\ UNCHANGED <<passes, calls, printed, image_path, active_color,
                   detections, chessboard, pieces, fen_string, RobotVars>>

\* image_to_fen, lines 61-66: the next piece is mapped.
ItfMap ==
    /\ pc = "itf_map"
    /\ k < Len(pieces)
    /\ LET r == MapPiece(board[1], pieces[k + 1], chessboard[1])
       IN  /\ k' = k + 1
           /\ board' = Some(r.board)
           /\ exc' = r.err
           /\ pc' = IF r.err = "" THEN "itf_map" ELSE "fen_except"
    /\ UNCHANGED <<passes, calls, printed, image_path, active_color,
                   detections, chessboard, pieces, fen_string, RobotVars>>

\* image_to_fen, lines 69-94: the position string.
ItfSerialize ==
    /\ pc = "itf_map"
    /\ k = Len(pieces)
    /\ fen_string' = Some(FenString(board[1], active_color))
    /\ pc' = "itf_return"
    /\ UNCHANGED <<passes, calls, printed, image_path, active_color,
                   ItfLocals, exc, RobotVars>>

\* main, lines 98-103: image_to_fen raised.
MainFenExcept ==
    /\ pc = "fen_except"
    /\ printed' = Append(printed, IF exc = "ValueError" THEN "fen_error"
                                  ELSE "fen_unexpected_error")
    /\ pc' = "done"
    /\ UNCHANGED <<passes, calls, image_path, active_color, ItfLocals, exc,
                   fen_string, RobotVars>>

\* main, lines 97 and 106-109: image_to_fen returned, its locals are gone;
\* the king check.
MainKings ==
    /\ pc = "itf_return"
    /\ detections' = None
    /\ chessboard' = None
    /\ pieces' = <<>>
    /\ board' = None
    /\ k' = 0
    /\ IF MissingKings(fen_string[1])
       THEN /\ printed' = printed \o <<"generated_fen", "missing_kings">>
            /\ pc' = "done"
       ELSE /\ printed' = Append(printed, "generated_fen")
            /\ pc' = "get_best_move"
    /\ UNCHANGED <<passes, calls, image_path, active_color, exc, fen_string,
                   RobotVars>>

\* main, lines 111-124, and get_best_move: a move, None, or an exception.
MainEngine ==
    /\ pc = "get_best_move"
    /\ calls' = Append(calls, "get_best_move")
    /\ \/ \E e \in {"FileNotFoundError", "ValueError", "Exception"} :
            /\ exc' = e
            /\ printed' = Append(printed, IF e = "Exception"
                                          THEN "stockfish_unexpected_error"
                                          ELSE "stockfish_error")
            /\ pc' = "done"
            /\ best_move' = best_move
       \/ /\ best_move' = None
          /\ printed' = Append(printed, "no_move")
          /\ pc' = "done"
          /\ exc' = exc
       \/ \E m \in Moves :
            /\ best_move' = Some(m)
            /\ exc' = exc
            /\ IF m # <<>>
               THEN /\ printed' = Append(printed, "best_move_found")
                    /\ pc' = "robot_init"
               ELSE /\ printed' = Append(printed, "no_move")
                    /\ pc' = "done"
    /\ UNCHANGED <<passes, image_path, active_color, ItfLocals, fen_string,
                   df, waypoints>>

\* main, line 129 and lines 131-136, and RobotController.__init__.
MainRobotInit ==
    /\ pc = "robot_init"
    /\ \/ \E e \in {"FileNotFoundError", "Exception"} :
            /\ exc' = e
            /\ printed' = Append(printed, IF e = "Exception"
                                          THEN "robot_unexpected_error"
                                          ELSE "robot_step_error")
            /\ pc' = "done"
            /\ df' = df
       \/ \E t \in Tables :
            /\ df' = Some(t)
            /\ pc' = "execute_robot_move"
            /\ UNCHANGED <<exc, printed>>
    /\ UNCHANGED <<passes, calls, image_path, active_color, ItfLocals,
                   fen_string, best_move, waypoints>>

\* main, line 130, and execute_robot_move, lines 79-99.
MainRobotExec ==
    /\ pc = "execute_robot_move"
    /\ calls' = Append(calls, "execute_robot_move")
    /\ LET r == get_move_coordinates(df[1], best_move[1])
       IN  IF r.err = ""
           THEN /\ waypoints' = Some(Waypoints(r.pick, r.place))
                /\ printed' = Append(printed, "final_waypoints")
           ELSE /\ waypoints' = waypoints
                /\ printed' = printed \o <<"error_in_robot_control", r.err>>
    /\ pc' = "turn_end"
    /\ UNCHANGED <<passes, image_path, active_color, ItfLocals, exc,
                   fen_string, best_move, df>>

\* main, lines 138-140.
MainTurnEnd ==
    /\ pc = "turn_end"
    /\ printed' = Append(printed, "turn_completed_successfully")
    /\ pc' = AfterTurn
    /\ UNCHANGED <<passes, calls, image_path, active_color, ItfLocals, exc,
                   fen_string, RobotVars>>

Next ==
    \/ MainStart
    \/ MainLoopHead
    \/ MainCapture
    \/ ItfDetect
    \/ ItfCheck
    \/ ItfMap
    \/ ItfSerialize
    \/ MainFenExcept
    \/ MainKings
    \/ MainEngine
    \/ MainRobotInit
    \/ MainRobotExec
    \/ MainTurnEnd

Spec == Init /\ [][Next]_vars

(***************************************************************************)
(* image_to_fen called on its own, as lines 116 and 120 call it with       *)
(* active_color 'w' and 'b': the state at the mapping loop, line 61, for a *)
(* given detection list, after the scan, the board check and n iterations  *)
(* of the loop.                                                            *)
(***************************************************************************)
RECURSIVE MapFrom(_, _, _, _)
MapFrom(b, ps, n, cb) ==
    IF n = 0 THEN b ELSE MapPiece(MapFrom(b, ps, n - 1, cb), ps[n], cb).board

AtMappingLoop(dets, n, color) ==
    /\ chessboard = ScanBoard(dets)
    /\ pieces = ScanPieces(dets)
    /\ board = Some(MapFrom(EmptyBoard, pieces, n, chessboard[1]))
    /\ pc = "itf_map"
    /\ passes = 0
    /\ calls = <<"image_to_fen">>
    /\ printed = <<>>
    /\ image_path = None
    /\ active_color = color
    /\ detections = Some(dets)
    /\ k = n
    /\ exc = ""
    /\ fen_string = None
    /\ best_move = None
    /\ df = None
    /\ waypoints = None

\* GridSpec: one piece and one board frame with its corner at (1,1), of every
\* width and height up to MaxSide; the piece's box is a point or one pixel
\* wide, so that its centre is any multiple of half a pixel around the frame.
GridLists ==
    { <<Det("Chess_Board", 1, 1, 1 + w, 1 + h),
        Det("White_King", x, y, x + dx, y + dy)>> :
        w \in 0..MaxSide, h \in 0..MaxSide,
        x \in 0..(MaxSide + 1), y \in 0..(MaxSide + 1),
        dx \in 0..1, dy \in 0..1 }

GridInit == \E dets \in GridLists : AtMappingLoop(dets, 0, "w")

GridNext == ItfMap

GridSpec == GridInit /\ [][GridNext]_vars

\* SerSpec: the serializer on grids that hold one rank of every pattern of
\* empty cells, white pawns and black kings (rank 8 or 4 of an otherwise
\* empty board, or rank 1 under seven ranks of black pawns).  The grid is the one the mapping loop builds from a detection
\* per occupied cell, centred in its square of the 32x32 frame at (0,0).
SymbolLabel == "P" :> "White_Pawn" @@ "k" :> "Black_King" @@ "p" :> "Black_Pawn"

CellDet(sym, r, c) ==
    Det(SymbolLabel[sym], 4 * c - 3, 4 * (8 - r) + 1, 4 * c - 1, 4 * (8 - r) + 3)

\* The detections of grid g's occupied cells among the first n of its 64.
RECURSIVE CellDets(_, _)
CellDets(g, n) ==
    IF n = 0 THEN <<>>
    ELSE LET r == ((n - 1) \div 8) + 1
             c == ((n - 1) % 8) + 1
         IN  IF g[r][c] = "" THEN CellDets(g, n - 1)
             ELSE Append(CellDets(g, n - 1), CellDet(g[r][c], r, c))

RankPatterns == [1..8 -> {"", "P", "k"}]
EmptyRank == [c \in 1..8 |-> ""]
PawnRank == [c \in 1..8 |-> "p"]
Layouts == { <<8, EmptyRank>>, <<4, EmptyRank>>, <<1, PawnRank>> }

SerLists ==
    { <<Det("Chess_Board", 0, 0, 32, 32)>>
          \o CellDets([r \in 1..8 |-> IF r = lay[1] THEN pat ELSE lay[2]], 64) :
        pat \in RankPatterns, lay \in Layouts }

SerInit ==
    \E dets \in SerLists, color \in {"w", "b"} :
        AtMappingLoop(dets, Len(dets) - 1, color)

SerNext == ItfSerialize

SerSpec == SerInit /\ [][SerNext]_vars

(***************************************************************************)
(* Vocabulary of the properties.                                           *)
(***************************************************************************)
Chars(s) == { s[i] : i \in 1..Len(s) }
Known(p) == p.label \in DOMAIN fen_mapping
ProperFrame(cb) == cb.w_b > 0 /\ cb.h_b > 0
Cells64(b) == [r \in 1..8 |-> [c \in 1..8 |-> b[r][c]]]
NoBoardLabel(dets) == \A i \in 1..Len(dets) : dets[i].label # "Chess_Board"
\* The frame of image_to_fen is live and past the scan.
ItfLive == pc \in {"itf_check", "itf_map", "itf_return", "fen_except"} /\ detections # None

(***************************************************************************)
(* C1.  Square Mapper: for a board frame (positive width and height) and   *)
(* the detection the mapping loop takes next, cell (rank, file) is set to  *)
(* the symbol when the label is known and rank and file are in 1..8, and   *)
(* otherwise the detection is discarded silently: none of the 64 cells     *)
(* changes and no error is raised.                                         *)
(***************************************************************************)
C1_SquareMapperStep ==
    (pc = "itf_map" /\ k < Len(pieces) /\ ProperFrame(chessboard[1])) =>
        LET p == pieces[k + 1]
            r == RowIndex(p, chessboard[1])
            c == ColIndex(p, chessboard[1])
        IN  IF Known(p) /\ r \in 1..8 /\ c \in 1..8
            THEN /\ board' = Some([board[1] EXCEPT ![r][c] = fen_mapping[p.label]])
                 /\ exc' = ""
            ELSE /\ Cells64(board'[1]) = Cells64(board[1])
                 /\ exc' = ""
                 /\ pc' = "itf_map"

C1_SquareMapper == [][C1_SquareMapperStep]_vars

(***************************************************************************)
(* C2.  Grid completeness: with a frame of positive width and height and a *)
(* centre strictly inside it, the mapping loop computes row_index in 1..8  *)
(* and col_index in 1..8, row_index = 8 - floor((center_y - origin_y) /    *)
(* square_height) and col_index = floor((center_x - origin_x) /            *)
(* square_width) + 1.                                                      *)
(***************************************************************************)
StrictlyInside(p, cb) ==
    /\ 2 * cb.x_b < p.x_c2 /\ p.x_c2 < 2 * (cb.x_b + cb.w_b)
    /\ 2 * cb.y_b < p.y_c2 /\ p.y_c2 < 2 * (cb.y_b + cb.h_b)

\* floor(a / b) for 0 <= a < 8 * b, by its definition: the q with
\* q * b <= a < (q + 1) * b.
Floor(a, b) == CHOOSE q \in 0..7 : q * b <= a /\ a < (q + 1) * b

C2_GridCompleteness ==
    (ItfLive /\ chessboard # None) =>
        \A i \in 1..Len(pieces) :
            (ProperFrame(chessboard[1]) /\ StrictlyInside(pieces[i], chessboard[1])) =>
                LET p == pieces[i]
                    cb == chessboard[1]
                IN  /\ RowIndex(p, cb) \in 1..8
                    /\ ColIndex(p, cb) \in 1..8
                    \* (c - o) / (side / 8) = (c2 - 2 o) * 4 / side
                    /\ RowIndex(p, cb) = 8 - Floor((p.y_c2 - 2 * cb.y_b) * 4, cb.h_b)
                    /\ ColIndex(p, cb) = Floor((p.x_c2 - 2 * cb.x_b) * 4, cb.w_b) + 1

\* A piece strictly inside the frame, in the last half of the bottom right
\* square, has been mapped.
C2_Witness ==
    /\ pc = "itf_map" /\ k = 1
    /\ ProperFrame(chessboard[1]) /\ StrictlyInside(pieces[1], chessboard[1])
    /\ chessboard[1].w_b = 5
    /\ pieces[1].x_c2 = 2 * (chessboard[1].x_b + chessboard[1].w_b) - 1
    /\ pieces[1].y_c2 = 2 * (chessboard[1].y_b + chessboard[1].h_b) - 1
    /\ board[1][1][8] = "K"

(***************************************************************************)
(* C3.  Notation Serializer: the string returned is the 8 rank strings,    *)
(* rank 8 first, joined by '/', then a space, the active colour and        *)
(* ' - - 0 1'; each rank string expands (a digit n to n empty cells, a     *)
(* symbol to itself) to exactly the 8 cells of its rank, has no digit 0    *)
(* and no two adjacent digits, and a rank with only 'P' on file 5 is '4P3'.*)
(***************************************************************************)
RECURSIVE SplitFrom(_, _, _, _, _)
SplitFrom(s, sep, i, cur, acc) ==
    IF i > Len(s) THEN Append(acc, cur)
    ELSE IF s[i] = sep THEN SplitFrom(s, sep, i + 1, <<>>, Append(acc, cur))
    ELSE SplitFrom(s, sep, i + 1, Append(cur, s[i]), acc)

Split(s, sep) == SplitFrom(s, sep, 1, <<>>, <<>>)

RECURSIVE Expand(_)
Expand(rs) ==
    IF rs = <<>> THEN <<>>
    ELSE IF IsDigit(Head(rs))
         THEN [i \in 1..DigitValue(Head(rs)) |-> ""] \o Expand(Tail(rs))
         ELSE <<Head(rs)>> \o Expand(Tail(rs))

RankStringOk(rs, cells) ==
    /\ Expand(rs) = cells
    /\ "0" \notin Chars(rs)
    /\ \A i \in 1..(Len(rs) - 1) : ~(IsDigit(rs[i]) /\ IsDigit(rs[i + 1]))
    /\ cells = <<"", "", "", "", "P", "", "", "">> => rs = <<"4", "P", "3">>

C3_Serializer ==
    pc = "itf_return" =>
        LET fields == Split(fen_string[1], " ")
            ranks == Split(fields[1], "/")
        IN  /\ fields # <<>>
            /\ Tail(fields) = << <<active_color>>, <<"-">>, <<"-">>, <<"0">>, <<"1">> >>
            /\ Len(ranks) = 8
            /\ \A i \in 1..8 :
                 RankStringOk(ranks[i], [c \in 1..8 |-> board[1][9 - i][c]])

\* Black to move; rank 4 holds only a white pawn on file 5.
C3_Witness ==
    /\ pc = "itf_return"
    /\ active_color = "b"
    /\ [c \in 1..8 |-> board[1][4][c]] = <<"", "", "", "", "P", "", "", "">>
    /\ fen_string[1] = <<"8", "/", "8", "/", "8", "/", "8", "/", "4", "P", "3", "/",
                         "8", "/", "8", "/", "8",
                         " ", "b", " ", "-", " ", "-", " ", "0", " ", "1">>

(***************************************************************************)
(* C4.  Missing-board failure: when the detection list holds no            *)
(* 'Chess_Board' detection, image_to_fen raises ValueError before a grid   *)
(* is created or a piece is mapped, returns no position string, and main   *)
(* ends the pass on it, however many piece detections there are.           *)
(***************************************************************************)
C4_MissingBoard ==
    (detections # None /\ NoBoardLabel(detections[1])) =>
        /\ chessboard = None
        /\ board = None
        /\ k = 0
        /\ fen_string = None
        /\ calls = <<"capture_image", "image_to_fen">>
        /\ pc \in {"itf_check", "fen_except", "done"}
        /\ pc # "itf_check" => exc = "ValueError"
        /\ pc = "done" => printed[Len(printed)] = "fen_error"

\* Four piece detections and no board: the pass has ended on the ValueError.
C4_Witness ==
    /\ pc = "done"
    /\ detections # None /\ NoBoardLabel(detections[1]) /\ Len(detections[1]) = 4
    /\ exc = "ValueError"

(***************************************************************************)
(* C5.  Degenerate board frame: when the board detection has a width or    *)
(* height that is not positive, image_to_fen never returns a position      *)
(* string.                                                                 *)
(***************************************************************************)
C5_DegenerateFrame ==
    (ItfLive /\ chessboard # None /\ ~ProperFrame(chessboard[1])) => fen_string = None

(***************************************************************************)
(* C6.  Kingless rejection: if the position string image_to_fen returned   *)
(* lacks 'k' or lacks 'K', get_best_move is never called, the robot step   *)
(* is never executed, and the pass ends.                                   *)
(***************************************************************************)
C6_KinglessRejection ==
    (fen_string # None /\ ~({"k", "K"} \subseteq Chars(fen_string[1]))) =>
        /\ calls = <<"capture_image", "image_to_fen">>
        /\ best_move = None /\ df = None /\ waypoints = None
        /\ pc \in {"itf_return", "done"}
        /\ pc = "done" => printed[Len(printed)] = "missing_kings"

\* A position with the white king and no black king: the pass has ended.
C6_Witness ==
    /\ pc = "done"
    /\ fen_string # None
    /\ "K" \in Chars(fen_string[1]) /\ "k" \notin Chars(fen_string[1])
    /\ calls = <<"capture_image", "image_to_fen">>

(***************************************************************************)
(* C7.  SquareNotMapped is fatal and not swallowed: when the move's origin *)
(* or destination square is absent from the coordinate table, no waypoint  *)
(* sequence is emitted and the pass ends as a failure, never reporting     *)
(* 'Single turn simulation completed successfully.'.                       *)
(***************************************************************************)
SquarePresent(t, file, rank) == IsDigit(rank) /\ <<file, DigitValue(rank)>> \in DOMAIN t

SquareAbsent(t, m) ==
    Len(m) >= 4 /\ (~SquarePresent(t, m[1], m[2]) \/ ~SquarePresent(t, m[3], m[4]))

RobotMoveExecuted == Len(calls) = 4

C7_SquareNotMappedFatal ==
    (RobotMoveExecuted /\ SquareAbsent(df[1], best_move[1])) =>
        /\ waypoints = None
        /\ pc = "done"
        /\ "turn_completed_successfully" \notin Chars(printed)

(***************************************************************************)
(* C8.  Waypoint sequence: for a move of at least 4 characters whose       *)
(* origin and destination squares are in the table, execute_robot_move     *)
(* emits exactly [pick(origin), pick(origin), HOME, place(destination),    *)
(* place(destination), HOME], whatever follows the fourth character; a     *)
(* move shorter than 4 characters gives the invalid-move error and no      *)
(* waypoints.                                                              *)
(***************************************************************************)
C8_WaypointSequence ==
    RobotMoveExecuted =>
        LET m == best_move[1]
            t == df[1]
        IN  /\ (Len(m) >= 4 /\ ~SquareAbsent(t, m)) =>
                  LET pick == t[<<m[1], DigitValue(m[2])>>].Pick
                      place == t[<<m[3], DigitValue(m[4])>>].Place
                  IN  waypoints = Some(<<pick, pick, HOME_COORDINATE,
                                         place, place, HOME_COORDINATE>>)
            /\ Len(m) < 4 =>
                  /\ waypoints = None
                  /\ "invalid_move_format" \in Chars(printed)

\* The promotion a1h8q with both squares in the table.
C8_Witness ==
    /\ RobotMoveExecuted
    /\ best_move = Some(<<"a", "1", "h", "8", "q">>)
    /\ waypoints = Some(<<"pick_a1", "pick_a1", HOME_COORDINATE,
                          "place_h8", "place_h8", HOME_COORDINATE>>)

(***************************************************************************)
(* C9.  Fail-stop sequential pipeline: capture_image, image_to_fen,        *)
(* get_best_move and execute_robot_move are each called at most once and   *)
(* in that order; a stage is called only if every earlier one succeeded    *)
(* (a path, a position string with both kings, a non-empty move); nothing  *)
(* is called after an exception; the loop is entered at most once and main *)
(* terminates: short of its end it always has a step to take, and every    *)
(* step brings it closer to the end.                                       *)
(***************************************************************************)
IsPrefix(s, t) == Len(s) <= Len(t) /\ \A i \in 1..Len(s) : s[i] = t[i]

\* The distance to main's end: the statements ahead, then the pieces the
\* mapping loop has yet to take.
PcOrder ==
    <<"done", "turn_end", "execute_robot_move", "robot_init", "get_best_move",
      "fen_except", "itf_return", "itf_map", "itf_check", "image_to_fen",
      "capture", "loop", "start">>

StatementsAhead == CHOOSE i \in 1..Len(PcOrder) : PcOrder[i] = pc
PiecesAhead == Len(pieces) - k

C9_Safety ==
    /\ IsPrefix(calls, Stages)
    /\ passes <= 1
    /\ Len(calls) >= 2 => image_path # None
    /\ Len(calls) >= 3 => fen_string # None /\ {"k", "K"} \subseteq Chars(fen_string[1])
    /\ Len(calls) >= 4 => best_move # None /\ best_move[1] # <<>> /\ df # None

C9_Progress ==
    /\ exc # "" => calls' = calls
    /\ \/ StatementsAhead' < StatementsAhead
       \/ StatementsAhead' = StatementsAhead /\ PiecesAhead' < PiecesAhead

C9_FailStop ==
    /\ [](C9_Safety /\ PiecesAhead >= 0 /\ (pc # "done" => ENABLED Next))
    /\ [][C9_Progress]_vars

\* A complete pass: all four stages called, main at its end.
C9_Witness == pc = "done" /\ Len(calls) = 4 /\ passes = 1

(***************************************************************************)
(* C10.  Last write wins: when two or more known-label detections map to   *)
(* the same in-range (rank, file) of a board frame, the cell holds the     *)
(* symbol of the last of them in iteration order once they are processed.  *)
(***************************************************************************)
WritersOf(r, c) ==
    { i \in 1..k : /\ Known(pieces[i])
                   /\ RowIndex(pieces[i], chessboard[1]) = r
                   /\ ColIndex(pieces[i], chessboard[1]) = c }

LastOf(S) == CHOOSE i \in S : \A j \in S : j <= i

C10_LastWriteWins ==
    (ItfLive /\ board # None /\ ProperFrame(chessboard[1])) =>
        \A r \in 1..8, c \in 1..8 :
            Cardinality(WritersOf(r, c)) >= 2 =>
                board[1][r][c] = fen_mapping[pieces[LastOf(WritersOf(r, c))].label]

(***************************************************************************)
(* C11.  Multiple board detections: when the detection list holds more     *)
(* than one 'Chess_Board' detection, image_to_fen uses the last of them in *)
(* iteration order as the one board frame; every other detection of the    *)
(* image, those listed before that board included, is a piece mapped with  *)
(* that frame's origin and square size; the earlier board detections have  *)
(* no effect on the grid or the string returned and are never pieces.      *)
(***************************************************************************)
BoardIndices(dets) == { i \in 1..Len(dets) : dets[i].label = "Chess_Board" }

NonBoards(dets) == SelectSeq(dets, LAMBDA d : d.label # "Chess_Board")

\* The frame of detection d: origin, width and height.
FrameOf(d) ==
    [x_b |-> d.x_min, y_b |-> d.y_min,
     w_b |-> d.x_max - d.x_min, h_b |-> d.y_max - d.y_min]

\* Piece i has been taken by the mapping loop and raised nothing.
Mapped(i) == i <= k /\ (i = k => exc = "")

C11_LastBoardWins ==
    (ItfLive /\ Cardinality(BoardIndices(detections[1])) >= 2) =>
        LET dets == detections[1]
            frame == FrameOf(dets[LastOf(BoardIndices(dets))])
            others == NonBoards(dets)
        IN  /\ chessboard = Some(frame)
            \* the pieces are the other detections, in order, and no board
            /\ Len(pieces) = Len(others)
            /\ \A i \in 1..Len(pieces) :
                 /\ pieces[i].label = others[i].label
                 /\ pieces[i].x_c2 = others[i].x_min + others[i].x_max
                 /\ pieces[i].y_c2 = others[i].y_min + others[i].y_max
            \* the grid is the one the last frame alone gives
            /\ board # None =>
                 /\ board[1] = MapFrom(EmptyBoard, pieces, k, frame)
                 /\ \A i \in 1..Len(pieces) :
                      (/\ Mapped(i) /\ Known(pieces[i])
                       /\ ProperFrame(frame) /\ StrictlyInside(pieces[i], frame)) =>
                          board[1][8 - Floor((pieces[i].y_c2 - 2 * frame.y_b) * 4, frame.h_b)]
                                  [Floor((pieces[i].x_c2 - 2 * frame.x_b) * 4, frame.w_b) + 1]
                              # ""
            /\ fen_string # None =>
                 fen_string = Some(FenString(MapFrom(EmptyBoard, pieces, Len(pieces), frame),
                                             active_color))

\* The 32x32 frame, a white king, the 16x16 frame, a black king: both kings
\* are on the squares of the 16x16 frame (a8, e1), not of the 32x32 frame
\* (b7, d4), and the string has been returned.
C11_Witness ==
    /\ pc = "itf_return"
    /\ detections = Some(<< Det("Chess_Board", 0, 0, 32, 32),
                            PieceAt("White_King", BoxA8),
                            Det("Chess_Board", 4, 4, 20, 20),
                            PieceAt("Black_King", BoxE1) >>)
    /\ board[1][8][1] = "K" /\ board[1][1][5] = "k"
    /\ board[1][7][2] = "" /\ board[1][4][4] = ""
    /\ fen_string # None

=============================================================================
